---- MODULE Spec2Model ----
(***************************************************************************)
(* Model of recipes/antlr4-cppruntime/all/conanfile.py: the Conan recipe   *)
(* class Antlr4CppRuntimeConan.  The recipe's methods (validate, build,    *)
(* package, package_info) are the actions; the settings, options and the   *)
(* requested version are the inputs; the package folder, the memoized      *)
(* CMake object and cpp_info are the state the methods write.              *)
(*                                                                         *)
(* Representation:                                                         *)
(*  - a version string "4.10.1" is the tuple of its dot-separated numeric  *)
(*    components <<4, 10, 1>>; Version(...) is conan.tools.scm.Version;    *)
(*  - a file of the package folder is a record [dir, name, content]: dir   *)
(*    the tuple of directory components below package_folder, name the     *)
(*    file name (a string, matched by fnmatch character by character),     *)
(*    content the lines of a generated file (<<>> for an installed file).  *)
(***************************************************************************)
EXTENDS Naturals, Sequences, FiniteSets, TLC

VARIABLES
    version,           \* self.version
    os,                \* self.settings.os
    compiler,          \* self.settings.compiler
    compiler_version,  \* self.settings.compiler.version
    cppstd,            \* self.settings.get_safe("compiler.cppstd"), "None" when unset
    shared,            \* self.options.shared
    validate_result,   \* "not_run", "ok", or the ConanInvalidConfiguration raised
    warned,            \* self.output.warn was called by validate()
    cmake_cache,       \* keys held by functools.lru_cache(1) of _configure_cmake
    calls,             \* the CMake helper calls made so far, in order
    aborted,           \* an exception left build() or package()
    cmake_output,      \* the files `cmake --install` puts into the package folder
    package_folder,    \* the files under self.package_folder
    cpp_info           \* self.cpp_info as package_info() leaves it, or NoInfo

vars == <<version, os, compiler, compiler_version, cppstd, shared,
          validate_result, warned, cmake_cache, calls, aborted,
          cmake_output, package_folder, cpp_info>>

validate_vars == <<validate_result, warned>>
setting_vars == <<version, os, compiler, compiler_version, cppstd, shared>>
build_vars == <<cmake_cache, calls, aborted, cmake_output, package_folder>>

---------------------------------------------------------------------------
(* Attributes of the recipe class.                                         *)

name == "antlr4-cppruntime"

\* compiler_required_cpp17 with "gcc" lowered to 6: a wrong table entry
compiler_required_cpp17_gcc6 ==
    [c \in {"Visual Studio", "gcc", "clang", "apple-clang"} |->
        CASE c = "Visual Studio" -> <<16>>
          [] c = "gcc"           -> <<6>>
          [] c = "clang"         -> <<5>>
          [] c = "apple-clang"   -> <<9, 1>>]

compiler_required_cpp17 ==
    [c \in {"Visual Studio", "gcc", "clang", "apple-clang"} |->
        CASE c = "Visual Studio" -> <<16>>
          [] c = "gcc"           -> <<7>>
          [] c = "clang"         -> <<5>>
          [] c = "apple-clang"   -> <<9, 1>>]

---------------------------------------------------------------------------
(* conan.tools.scm.Version: comparison of dotted versions.                 *)

RECURSIVE StripZeros(_)
\* Version.__init__: trailing zero components do not count ("4.10.0" = "4.10")
StripZeros(v) ==
    IF v # <<>> /\ v[Len(v)] = 0 THEN StripZeros(SubSeq(v, 1, Len(v) - 1)) ELSE v

RECURSIVE TupleLt(_, _)
\* Python's tuple order: the first differing component decides, a proper
\* prefix is smaller
TupleLt(a, b) ==
    IF a = <<>> THEN b # <<>>
    ELSE IF b = <<>> THEN FALSE
    ELSE IF a[1] # b[1] THEN a[1] < b[1]
    ELSE TupleLt(Tail(a), Tail(b))

Version(v) == StripZeros(v)

VersionLt(a, b) == TupleLt(Version(a), Version(b))
VersionGe(a, b) == ~VersionLt(a, b)
VersionEq(a, b) == Version(a) = Version(b)

---------------------------------------------------------------------------
(* conan.tools.build.check_min_cppstd as validate() calls it.              *)

DigitVal(c) ==
    CASE c = "0" -> 0 [] c = "1" -> 1 [] c = "2" -> 2 [] c = "3" -> 3
      [] c = "4" -> 4 [] c = "5" -> 5 [] c = "6" -> 6 [] c = "7" -> 7
      [] c = "8" -> 8 [] c = "9" -> 9

RECURSIVE StrLt(_, _)
\* Python's str order on digit strings
StrLt(a, b) ==
    IF a = "" THEN b # ""
    ELSE IF b = "" THEN FALSE
    ELSE IF Head(a) # Head(b) THEN DigitVal(Head(a)) < DigitVal(Head(b))
    ELSE StrLt(SubSeq(a, 2, Len(a)), SubSeq(b, 2, Len(b)))

\* extract_cpp_version: str(cppstd).replace("gnu", "")
extract_cpp_version(s) ==
    IF Len(s) >= 3 /\ SubSeq(s, 1, 3) = "gnu" THEN SubSeq(s, 4, Len(s)) ELSE s

\* add_millennium: "98" is 1998, every other standard is 20xx
add_millennium(s) == IF s = "98" THEN "19" \o s ELSE "20" \o s

less_than(lhs, rhs) ==
    StrLt(add_millennium(extract_cpp_version(lhs)),
          add_millennium(extract_cpp_version(rhs)))

\* TRUE when check_min_cppstd(self, min) raises for the current cppstd
check_min_cppstd_raises(current, min) == less_than(current, min)

---------------------------------------------------------------------------
(* validate()                                                              *)

\* is_msvc restricted to the legacy compiler name: misses "msvc"
is_msvc_legacy_only(c) == c = "Visual Studio"

\* conan.tools.microsoft.is_msvc
is_msvc(c) == c \in {"Visual Studio", "msvc"}

\* the old-toolchain rule applied only from the C++17 threshold on
OldToolchain_from_4_10(ver, c, cver) ==
    VersionGe(ver, <<4, 10>>) /\ c = "Visual Studio" /\ VersionLt(cver, <<16>>)

\* line 68: Visual Studio older than 16, for every requested version
OldToolchain(ver, c, cver) == c = "Visual Studio" /\ VersionLt(cver, <<16>>)

\* the C++17 block with an unknown compiler rejected instead of warned about
Cpp17Block_unknown_raises(c, cver, std) ==
    IF std # "None" /\ check_min_cppstd_raises(std, "17")
    THEN [error |-> "cppstd", warned |-> FALSE]
    ELSE IF c \in DOMAIN compiler_required_cpp17
    THEN IF VersionLt(cver, compiler_required_cpp17[c])
         THEN [error |-> "requires_cpp17", warned |-> FALSE]
         ELSE [error |-> "none", warned |-> FALSE]
    ELSE [error |-> "requires_cpp17", warned |-> FALSE]

\* lines 78-86, the body of `if antlr_version >= "4.10"`
Cpp17Block(c, cver, std) ==
    IF std # "None" /\ check_min_cppstd_raises(std, "17")
    THEN [error |-> "cppstd", warned |-> FALSE]
    ELSE IF c \in DOMAIN compiler_required_cpp17
    THEN IF VersionLt(cver, compiler_required_cpp17[c])
         THEN [error |-> "requires_cpp17", warned |-> FALSE]
         ELSE [error |-> "none", warned |-> FALSE]
    ELSE [error |-> "none", warned |-> TRUE]

\* lines 63-89: the exception validate() raises ("none": it returns) and
\* whether it warned before
validate(ver, c, cver, std) ==
    IF OldToolchain(ver, c, cver)
    THEN [error |-> "C2668", warned |-> FALSE]
    ELSE LET blk == IF VersionGe(ver, <<4, 10>>)
                    THEN Cpp17Block(c, cver, std)
                    ELSE [error |-> "none", warned |-> FALSE]
         IN  IF blk.error # "none" THEN blk
             ELSE IF is_msvc(c) /\ VersionEq(ver, <<4, 10>>)
             THEN [error |-> "broken_4_10", warned |-> blk.warned]
             ELSE blk

Validate ==
    /\ validate_result = "not_run"
    /\ LET r == validate(version, compiler, compiler_version, cppstd)
       IN  /\ validate_result' = (IF r.error = "none" THEN "ok" ELSE r.error)
           /\ warned' = r.warned
    /\ UNCHANGED <<setting_vars, build_vars, cpp_info>>

---------------------------------------------------------------------------
(* conan.tools.files: copy, rm, rmdir, save on the package folder.         *)

RECURSIVE fnmatch_at(_, _, _, _)
\* fnmatch.fnmatch(name, pat) from position i of name and j of pat: "*"
\* matches any run of characters, "?" one character, the rest itself; the
\* whole name must match
fnmatch_at(nm, i, pat, j) ==
    IF j > Len(pat) THEN i > Len(nm)
    ELSE IF SubSeq(pat, j, j) = "*"
    THEN \/ fnmatch_at(nm, i, pat, j + 1)
         \/ (i <= Len(nm) /\ fnmatch_at(nm, i + 1, pat, j))
    ELSE /\ i <= Len(nm)
         /\ (SubSeq(pat, j, j) = "?" \/ SubSeq(pat, j, j) = SubSeq(nm, i, i))
         /\ fnmatch_at(nm, i + 1, pat, j + 1)

fnmatch(nm, pat) == fnmatch_at(nm, 1, pat, 1)

\* dir is folder or lies below it
IsUnder(dir, folder) ==
    Len(folder) <= Len(dir) /\ SubSeq(dir, 1, Len(folder)) = folder

\* rm(self, pattern, folder): recursive=False, only the files directly in folder
\* (fnmatch folds case on a Windows host; every name here is lower case)
rm(tree, pattern, folder) ==
    {f \in tree : ~(f.dir = folder /\ fnmatch(f.name, pattern))}

\* rmdir(self, path): the directory and everything below it
rmdir(tree, path) == {f \in tree : ~IsUnder(f.dir, path)}

\* save(self, path, content): creates or overwrites the file
save(tree, file, content) ==
    {f \in tree : ~(f.dir = file.dir /\ f.name = file.name)}
      \cup {[dir |-> file.dir, name |-> file.name, content |-> content]}

\* copy(self, pattern, src, dst) of one file of the source tree
copy(tree, fname, dst) ==
    save(tree, [dir |-> dst, name |-> fname], <<>>)

\* cmake.install(): the installed files land in the package folder
install(tree, out) ==
    {f \in tree : \A g \in out : ~(f.dir = g.dir /\ f.name = g.name)} \cup out

---------------------------------------------------------------------------
(* package() and its helpers                                               *)

\* lines 160-162
_module_file_rel_path ==
    [dir |-> <<"lib", "cmake">>,
     name |-> "conan-official-" \o name \o "-targets.cmake"]

\* the targets dictionary with both aliases declared whatever the linkage
AliasTargets_both(sh) ==
    << [alias |-> "antlr4_shared", aliased |-> "antlr4-cppruntime::antlr4-cppruntime"],
       [alias |-> "antlr4_static", aliased |-> "antlr4-cppruntime::antlr4-cppruntime"] >>

\* line 146: the targets dictionary, in iteration order
AliasTargets(sh) ==
    << [alias |-> IF sh THEN "antlr4_shared" ELSE "antlr4_static",
        aliased |-> "antlr4-cppruntime::antlr4-cppruntime"] >>

\* lines 152-157: the four lines written for one alias
AliasBlock(alias, aliased) ==
    << <<"if(TARGET", aliased, "AND NOT TARGET", alias, ")">>,
       <<"add_library(", alias, "INTERFACE IMPORTED)">>,
       <<"set_property(TARGET", alias, "PROPERTY INTERFACE_LINK_LIBRARIES", aliased, ")">>,
       <<"endif()">> >>

RECURSIVE AliasContent(_)
\* lines 150-157: content += block, for each item of targets
AliasContent(targets) ==
    IF targets = <<>> THEN <<>>
    ELSE AliasBlock(targets[1].alias, targets[1].aliased)
           \o AliasContent(Tail(targets))

\* lines 149-158
_create_cmake_module_alias_targets(tree, module_file, targets) ==
    save(tree, module_file, AliasContent(targets))

\* the pruning with the rm of "*antlr4-runtime.a" forgotten when shared
PruneLinkage_keeps_static_a(tree, sh) ==
    IF sh
    THEN rm(tree, "*antlr4-runtime-static.*", <<"lib">>)
    ELSE rm(rm(rm(rm(rm(tree,
            "*.dll", <<"bin">>),
            "antlr4-runtime.lib", <<"lib">>),
            "*antlr4-runtime.so*", <<"lib">>),
            "*antlr4-runtime.dll*", <<"lib">>),
            "*antlr4-runtime.*dylib", <<"lib">>)

\* lines 128-136
PruneLinkage(tree, sh) ==
    IF sh
    THEN rm(rm(tree,
            "*antlr4-runtime-static.*", <<"lib">>),
            "*antlr4-runtime.a", <<"lib">>)
    ELSE rm(rm(rm(rm(rm(tree,
            "*.dll", <<"bin">>),
            "antlr4-runtime.lib", <<"lib">>),
            "*antlr4-runtime.so*", <<"lib">>),
            "*antlr4-runtime.dll*", <<"lib">>),
            "*antlr4-runtime.*dylib", <<"lib">>)

\* line 125
CopyLicense(tree) == copy(tree, "LICENSE.txt", <<"licenses">>)

\* the steps after install with the alias file written before lib/cmake is removed
PackageFiles_alias_first(tree, out, sh) ==
    LET installed == install(tree, out)
        aliased == _create_cmake_module_alias_targets(
                       installed, _module_file_rel_path, AliasTargets(sh))
        pruned == PruneLinkage(aliased, sh)
    IN  rmdir(rmdir(pruned, <<"share">>), <<"lib", "cmake">>)

\* lines 127-147: install, prune, remove share/ and lib/cmake/, write the
\* alias file, in this order
PackageFiles(tree, out, sh) ==
    LET installed == install(tree, out)
        pruned == PruneLinkage(installed, sh)
        cleaned == rmdir(rmdir(pruned, <<"share">>), <<"lib", "cmake">>)
    IN  _create_cmake_module_alias_targets(
            cleaned, _module_file_rel_path, AliasTargets(sh))

---------------------------------------------------------------------------
(* _configure_cmake(), build(), package()                                  *)

\* functools.lru_cache(1): maxsize
lru_maxsize == 1

\* _configure_cmake without the memoization: every call configures
_configure_cmake_uncached(cache, log, ok) ==
    [cache |-> cache, calls |-> Append(log, "configure"), raised |-> ~ok]

\* lines 113-117.  A hit returns the cached CMake object; a miss runs
\* cmake.configure() and, unless it raises, caches the result, evicting
\* the least recently used key beyond maxsize.
_configure_cmake(cache, log, ok) ==
    IF \E i \in DOMAIN cache : cache[i] = "self"
    THEN [cache |-> cache, calls |-> log, raised |-> FALSE]
    ELSE IF ok
    THEN LET grown == Append(cache, "self")
         IN  [cache |-> IF Len(grown) > lru_maxsize
                        THEN SubSeq(grown, Len(grown) - lru_maxsize + 1, Len(grown))
                        ELSE grown,
              calls |-> Append(log, "configure"),
              raised |-> FALSE]
    ELSE [cache |-> cache, calls |-> Append(log, "configure"), raised |-> TRUE]

\* an exception leaving build() or package() ends the run: ~aborted guards both
\* lines 119-122; ok: cmake.configure() does not raise.  _patch_sources()
\* changes only the source tree, which is not part of the state.
Build(ok) ==
    /\ ~aborted
    /\ LET c == _configure_cmake(cmake_cache, calls, ok)
       IN  /\ cmake_cache' = c.cache
           /\ aborted' = c.raised
           /\ calls' = IF c.raised THEN c.calls ELSE Append(c.calls, "build")
    /\ UNCHANGED <<setting_vars, validate_vars, cmake_output, package_folder, cpp_info>>

\* lines 124-147; ok: cmake.configure() does not raise
Package(ok) ==
    /\ ~aborted
    /\ LET c == _configure_cmake(cmake_cache, calls, ok)
       IN  /\ cmake_cache' = c.cache
           /\ aborted' = c.raised
           /\ calls' = IF c.raised THEN c.calls ELSE Append(c.calls, "install")
           /\ package_folder' =
                IF c.raised THEN CopyLicense(package_folder)
                ELSE PackageFiles(CopyLicense(package_folder), cmake_output, shared)
    /\ UNCHANGED <<setting_vars, validate_vars, cmake_output, cpp_info>>

---------------------------------------------------------------------------
(* package_info()                                                          *)

NoInfo == [set |-> FALSE]

\* the static define exported on every OS
StaticDefines_any_os(o, sh) == IF ~sh THEN <<"ANTLR4CPP_STATIC">> ELSE <<>>

\* lines 172-173: what is appended to cpp_info.defines
StaticDefines(o, sh) ==
    IF o = "Windows" /\ ~sh THEN <<"ANTLR4CPP_STATIC">> ELSE <<>>

\* lines 174-175
SystemLibs(o) == IF o \in {"FreeBSD", "Linux"} THEN <<"pthread">> ELSE <<>>

\* the "-static" suffix added on every compiler
LibName_static_everywhere(c, sh) ==
    IF ~sh THEN "antlr4-runtime" \o "-static" ELSE "antlr4-runtime"

\* lines 167-169
LibName(c, sh) ==
    IF is_msvc(c) /\ ~sh THEN "antlr4-runtime" \o "-static" ELSE "antlr4-runtime"

\* lines 164-181, on a fresh cpp_info (includedirs ["include"], the rest empty)
PackageInfo ==
    /\ cpp_info = NoInfo
    /\ cpp_info' =
         [set |-> TRUE,
          cmake_file_name |-> "antlr4-runtime",
          cmake_target_name |-> IF shared THEN "antlr4_shared" ELSE "antlr4_static",
          libs |-> <<LibName(compiler, shared)>>,
          includedirs |-> <<<<"include">>, <<"include", "antlr4-runtime">>>>,
          defines |-> StaticDefines(os, shared),
          system_libs |-> SystemLibs(os),
          filenames |-> [g \in {"cmake_find_package", "cmake_find_package_multi"}
                           |-> "antlr4-runtime"],
          build_modules |-> [g \in {"cmake_find_package", "cmake_find_package_multi"}
                               |-> <<_module_file_rel_path>>]]
    /\ UNCHANGED <<setting_vars, validate_vars, build_vars>>

---------------------------------------------------------------------------
(* Inputs and specifications                                               *)

Versions == {<<4, 9, 3>>, <<4, 10>>, <<4, 10, 1>>, <<4, 11>>}
Compilers == {"Visual Studio", "gcc", "clang", "apple-clang", "msvc", "intel-cc"}
CompilerVersions ==
    {<<4>>, <<5>>, <<6>>, <<7>>, <<9>>, <<9, 0>>, <<9, 1>>, <<10, 0>>,
     <<15>>, <<16>>, <<193>>}
CppStds == {"None", "98", "14", "gnu14", "17", "gnu17", "20"}
OSes == {"Windows", "Linux", "FreeBSD", "Macos"}

\* toolchains the packaging runs are explored with; each passes validate()
BuildToolchains ==
    {[compiler |-> "gcc", version |-> <<9>>],
     [compiler |-> "Visual Studio", version |-> <<16>>],
     [compiler |-> "msvc", version |-> <<193>>]}

File(dir, nm) == [dir |-> dir, name |-> nm, content |-> <<>>]

\* what the upstream build may install: both linkage variants of the
\* library under their platform names, headers, CMake config files, docs
InstallCandidates ==
    {File(<<"lib">>, "libantlr4-runtime.a"),
     File(<<"lib">>, "antlr4-runtime-static.lib"),
     File(<<"lib">>, "libantlr4-runtime-static.a"),
     File(<<"lib">>, "libantlr4-runtime.so"),
     File(<<"lib">>, "libantlr4-runtime.so.4.11.1"),
     File(<<"lib">>, "libantlr4-runtime.dylib"),
     File(<<"lib">>, "libantlr4-runtime.4.11.1.dylib"),
     File(<<"lib">>, "antlr4-runtime.lib"),
     File(<<"lib">>, "libantlr4-runtime.dll.a"),
     File(<<"bin">>, "antlr4-runtime.dll"),
     File(<<"include", "antlr4-runtime">>, "antlr4-runtime.h"),
     File(<<"lib", "cmake", "antlr4-runtime">>, "antlr4-runtime-config.cmake"),
     File(<<"lib", "cmake", "antlr4-generator">>, "antlr4-generator-config.cmake"),
     File(<<"share", "doc", "libantlr4">>, "README.md")}

\* bound on the number of files one install puts into the package folder
MaxInstalled == 2

InitBuildState ==
    /\ cmake_cache = <<>>
    /\ calls = <<>>
    /\ aborted = FALSE
    /\ package_folder = {}
    /\ cpp_info = NoInfo

\* a packaging run: validate() has passed, nothing is built yet
Init ==
    /\ version = <<4, 11, 1>>
    /\ cppstd = "None"
    /\ os \in OSes
    /\ shared \in BOOLEAN
    /\ \E t \in BuildToolchains :
          /\ compiler = t.compiler
          /\ compiler_version = t.version
          /\ validate(version, t.compiler, t.version, cppstd).error = "none"
          /\ warned = validate(version, t.compiler, t.version, cppstd).warned
    /\ validate_result = "ok"
    /\ cmake_output \in {T \in SUBSET InstallCandidates : Cardinality(T) <= MaxInstalled}
    /\ InitBuildState

\* package() has run to its end at least once
Packaged == \E i \in DOMAIN calls : calls[i] = "install"

\* one run of the package manager: build() at most once and first,
\* package() once, package_info() once
Next ==
    \/ \E ok \in BOOLEAN : calls = <<>> /\ Build(ok)
    \/ \E ok \in BOOLEAN : ~Packaged /\ Package(ok)
    \/ PackageInfo

Spec == Init /\ [][Next]_vars

\* bound on the build() and package() calls of one process
MaxOps == 3

NumOps == Cardinality({i \in DOMAIN calls : calls[i] \in {"build", "install"}})

\* what a Linux build installs
LinuxInstall ==
    {File(<<"lib">>, "libantlr4-runtime.a"),
     File(<<"lib">>, "libantlr4-runtime.so"),
     File(<<"lib">>, "libantlr4-runtime.so.4.11.1"),
     File(<<"include", "antlr4-runtime">>, "antlr4-runtime.h"),
     File(<<"lib", "cmake", "antlr4-runtime">>, "antlr4-runtime-config.cmake"),
     File(<<"lib", "cmake", "antlr4-generator">>, "antlr4-generator-config.cmake"),
     File(<<"share", "doc", "libantlr4">>, "README.md")}

\* one process calling build() and package() in any order, any number of times
InitCalls ==
    /\ version \in {<<4, 9, 3>>, <<4, 11, 1>>}
    /\ cppstd = "None"
    /\ os \in {"Linux", "FreeBSD"}
    /\ shared \in BOOLEAN
    /\ compiler = "gcc"
    /\ compiler_version = <<9>>
    /\ validate_result = "ok"
    /\ warned = FALSE
    /\ cmake_output = LinuxInstall
    /\ InitBuildState

NextCalls ==
    \/ \E ok \in BOOLEAN : NumOps < MaxOps /\ Build(ok)
    \/ \E ok \in BOOLEAN : NumOps < MaxOps /\ Package(ok)

SpecCalls == InitCalls /\ [][NextCalls]_vars

\* a validation run: any requested version on any toolchain
InitValidate ==
    /\ version \in Versions
    /\ compiler \in Compilers
    /\ compiler_version \in CompilerVersions
    /\ cppstd \in CppStds
    /\ os = "Linux"
    /\ shared = FALSE
    /\ validate_result = "not_run"
    /\ warned = FALSE
    /\ cmake_output = {}
    /\ InitBuildState

NextValidate == Validate

SpecValidate == InitValidate /\ [][NextValidate]_vars

---------------------------------------------------------------------------
(* Properties of validate(), checked under SpecValidate                    *)

Validated == validate_result # "not_run"

\* the minimum compiler versions as the specification states them
StatedMinimum ==
    [c \in {"Visual Studio", "gcc", "clang", "apple-clang"} |->
        CASE c = "Visual Studio" -> <<16>>
          [] c = "gcc"           -> <<7>>
          [] c = "clang"         -> <<5>>
          [] c = "apple-clang"   -> <<9, 1>>]

KnownCompiler == compiler \in {"Visual Studio", "gcc", "clang", "apple-clang"}
MsvcFamily == compiler \in {"Visual Studio", "msvc"}
AtLeast_4_10 == VersionGe(version, <<4, 10>>)
Exactly_4_10 == version = <<4, 10>>
\* compiler.cppstd is unset or names C++17 or later
CppStdAllows17 == cppstd \in {"None", "17", "gnu17", "20"}
OldVisualStudio == compiler = "Visual Studio" /\ VersionLt(compiler_version, <<16>>)

\* C1 as stated: for a version >= 4.10 and a compiler of the table,
\* validate() succeeds iff the compiler version is >= the table's minimum.
\* Refuted: Visual Studio 16 with version 4.10, and gcc 9 with cppstd 14, fail.
C1_Original ==
    (Validated /\ AtLeast_4_10 /\ KnownCompiler) =>
        (validate_result = "ok"
            <=> VersionGe(compiler_version, StatedMinimum[compiler]))

\* C1 amended: for a version >= 4.10 and a compiler of the table, validate()
\* succeeds iff the compiler version is >= the table's minimum, and
\* compiler.cppstd is unset or at least 17, and the pair is not version 4.10
\* on Visual Studio; otherwise it raises ConanInvalidConfiguration.
C1_Amended ==
    (Validated /\ AtLeast_4_10 /\ KnownCompiler) =>
        /\ validate_result = "ok"
             <=> /\ VersionGe(compiler_version, StatedMinimum[compiler])
                 /\ CppStdAllows17
                 /\ ~(compiler = "Visual Studio" /\ Exactly_4_10)
        /\ validate_result \in {"ok", "C2668", "cppstd", "requires_cpp17", "broken_4_10"}

\* version 4.11 with gcc 6 has been rejected for its compiler version
C1_Witness ==
    /\ version = <<4, 11>> /\ compiler = "gcc" /\ compiler_version = <<6>>
    /\ cppstd = "None"
    /\ validate_result = "requires_cpp17"

\* C2: version 4.10 on a compiler of the MSVC family always fails validation,
\* whatever the compiler version; the broken-version error is raised for no
\* other version (4.10.1 included) and no other compiler family.
C2_BrokenVersion ==
    Validated =>
        /\ (Exactly_4_10 /\ MsvcFamily) => validate_result # "ok"
        /\ validate_result = "broken_4_10" => (Exactly_4_10 /\ MsvcFamily)

\* version 4.10 with compiler msvc 193 has been rejected as broken
C2_Witness ==
    /\ version = <<4, 10>> /\ compiler = "msvc" /\ compiler_version = <<193>>
    /\ validate_result = "broken_4_10"

\* C7 as stated: for a version >= 4.10 and a compiler outside the table,
\* validate() warns and does not raise the C++17 error.
\* Refuted: with cppstd 14 check_min_cppstd raises before any warning.
C7_Original ==
    (Validated /\ AtLeast_4_10 /\ ~KnownCompiler) =>
        (warned /\ validate_result # "requires_cpp17")

\* C7 amended: for a version >= 4.10 and a compiler outside the table,
\* validate() never raises the C++17 compiler error; when compiler.cppstd is
\* unset or at least 17 it emits the warning, and it then fails only by the
\* broken-version rule (version 4.10 on msvc), for every compiler version.
C7_Amended ==
    (Validated /\ AtLeast_4_10 /\ ~KnownCompiler) =>
        /\ validate_result # "requires_cpp17"
        /\ validate_result # "C2668"
        /\ CppStdAllows17 =>
             /\ warned
             /\ validate_result = (IF Exactly_4_10 /\ compiler = "msvc"
                                   THEN "broken_4_10" ELSE "ok")
        /\ ~CppStdAllows17 => (~warned /\ validate_result = "cppstd")

\* version 4.11 with the unknown compiler intel-cc passed with a warning
C7_Witness ==
    /\ version = <<4, 11>> /\ compiler = "intel-cc" /\ compiler_version = <<5>>
    /\ cppstd = "None"
    /\ validate_result = "ok" /\ warned

\* C8: Visual Studio older than 16 is rejected for every requested version;
\* below 4.10 the C++17 table is not consulted, so validate() fails iff the
\* compiler is Visual Studio older than 16.
C8_OldToolchain ==
    Validated =>
        /\ OldVisualStudio => validate_result = "C2668"
        /\ ~AtLeast_4_10 => (validate_result # "ok" <=> OldVisualStudio)
        /\ ~AtLeast_4_10 => ~warned

\* version 4.9.3 with Visual Studio 15 has been rejected
C8_Witness ==
    /\ version = <<4, 9, 3>> /\ compiler = "Visual Studio"
    /\ compiler_version = <<15>>
    /\ validate_result = "C2668"

---------------------------------------------------------------------------
(* Properties of package() and package_info(), checked under Spec          *)

\* the library artifacts by linkage, as the specification lists them
StaticArtifacts ==
    {File(<<"lib">>, "libantlr4-runtime.a"),
     File(<<"lib">>, "antlr4-runtime-static.lib"),
     File(<<"lib">>, "libantlr4-runtime-static.a")}

DynamicArtifacts ==
    {File(<<"lib">>, "libantlr4-runtime.so"),
     File(<<"lib">>, "libantlr4-runtime.so.4.11.1"),
     File(<<"lib">>, "libantlr4-runtime.dylib"),
     File(<<"lib">>, "libantlr4-runtime.4.11.1.dylib"),
     File(<<"lib">>, "antlr4-runtime.lib"),
     File(<<"lib">>, "libantlr4-runtime.dll.a"),
     File(<<"bin">>, "antlr4-runtime.dll")}

SelectedArtifacts == IF shared THEN DynamicArtifacts ELSE StaticArtifacts
OtherArtifacts == IF shared THEN StaticArtifacts ELSE DynamicArtifacts

\* C3: after package(), whatever install put under lib/ and bin/, no
\* artifact of the linkage not selected is left, and every installed
\* artifact of the selected linkage is still in place.
C3_Pruning ==
    Packaged =>
        /\ package_folder \cap OtherArtifacts = {}
        /\ package_folder \cap SelectedArtifacts = cmake_output \cap SelectedArtifacts

\* install put one artifact of each linkage; only the selected one is left
C3_Witness ==
    /\ Packaged
    /\ cmake_output \cap StaticArtifacts # {}
    /\ cmake_output \cap DynamicArtifacts # {}
    /\ package_folder \cap SelectedArtifacts # {}
    /\ package_folder \cap OtherArtifacts = {}

AliasFileName == "conan-official-antlr4-cppruntime-targets.cmake"
IsAliasFile(f) == f.dir = <<"lib", "cmake">> /\ f.name = AliasFileName
ExpectedAlias == IF shared THEN "antlr4_shared" ELSE "antlr4_static"
CanonicalTarget == "antlr4-cppruntime::antlr4-cppruntime"

\* the alias names a generated file declares with add_library
DeclaredAliases(content) ==
    {content[i][2] : i \in {k \in DOMAIN content : content[k][1] = "add_library("}}

\* C4: the alias file written by package() declares exactly one alias,
\* antlr4_shared when shared and antlr4_static otherwise, which links to
\* antlr4-cppruntime::antlr4-cppruntime.
C4_OneAlias ==
    Packaged =>
        \A f \in package_folder : IsAliasFile(f) =>
            /\ DeclaredAliases(f.content) = {ExpectedAlias}
            /\ Cardinality({k \in DOMAIN f.content :
                              f.content[k][1] = "add_library("}) = 1
            /\ \A k \in DOMAIN f.content :
                  f.content[k][1] = "set_property(TARGET" =>
                      /\ f.content[k][2] = ExpectedAlias
                      /\ f.content[k][4] = CanonicalTarget
            /\ \E k \in DOMAIN f.content : f.content[k][1] = "set_property(TARGET"

\* a shared package holds the alias file declaring antlr4_shared
C4_Witness ==
    /\ Packaged /\ shared
    /\ \E f \in package_folder :
          IsAliasFile(f) /\ DeclaredAliases(f.content) = {"antlr4_shared"}

\* C6: package_info() exports ANTLR4CPP_STATIC iff os is Windows and shared
\* is False, and system_libs is ["pthread"] iff os is Linux or FreeBSD, empty
\* otherwise.
C6_Metadata ==
    cpp_info.set =>
        /\ (\E i \in DOMAIN cpp_info.defines : cpp_info.defines[i] = "ANTLR4CPP_STATIC")
              <=> (os = "Windows" /\ ~shared)
        /\ cpp_info.system_libs =
              (IF os \in {"Linux", "FreeBSD"} THEN <<"pthread">> ELSE <<>>)

\* shared=False on Linux: pthread and no define
C6_Witness ==
    /\ cpp_info.set /\ os = "Linux" /\ ~shared
    /\ cpp_info.system_libs = <<"pthread">>
    /\ cpp_info.defines = <<>>

\* C9: in the final package tree the alias file exists and is the only
\* entry under lib/cmake, nothing is left under share/, and the path
\* package_info() registers as build module for both generators is the
\* path of that file.
C9_AliasWrittenLast ==
    Packaged =>
        /\ \E f \in package_folder : IsAliasFile(f)
        /\ \A f \in package_folder :
              /\ IsUnder(f.dir, <<"lib", "cmake">>) => IsAliasFile(f)
              /\ ~IsUnder(f.dir, <<"share">>)
        /\ cpp_info.set =>
              \A g \in {"cmake_find_package", "cmake_find_package_multi"} :
                  /\ Len(cpp_info.build_modules[g]) = 1
                  /\ \E f \in package_folder :
                        /\ IsAliasFile(f)
                        /\ f.dir = cpp_info.build_modules[g][1].dir
                        /\ f.name = cpp_info.build_modules[g][1].name

\* install put the generator's config file and a share/ file; both are gone
\* and the alias file is there
C9_Witness ==
    /\ Packaged /\ cpp_info.set
    /\ \E f \in cmake_output : f.dir = <<"lib", "cmake", "antlr4-generator">>
    /\ \E f \in cmake_output : f.dir = <<"share", "doc", "libantlr4">>
    /\ \E f \in package_folder : IsAliasFile(f)

\* the name a linker looks a library file up by: without the "lib" prefix
\* and without everything from the first dot on
BaseName(nm) ==
    LET stem == IF Len(nm) >= 3 /\ SubSeq(nm, 1, 3) = "lib"
                THEN SubSeq(nm, 4, Len(nm)) ELSE nm
        dot == CHOOSE i \in 1..(Len(stem) + 1) :
                  /\ i = Len(stem) + 1 \/ SubSeq(stem, i, i) = "."
                  /\ \A j \in 1..(i - 1) : SubSeq(stem, j, j) # "."
    IN  SubSeq(stem, 1, dot - 1)

\* the library artifacts install produced and package() removed
RemovedArtifacts ==
    (cmake_output \cap (StaticArtifacts \cup DynamicArtifacts)) \ package_folder

\* every installed artifact of the selected linkage that carries the declared
\* name is left in lib/
DeclaredLibKept ==
    \A f \in cmake_output \cap SelectedArtifacts :
        (f.dir = <<"lib">> /\ BaseName(f.name) = cpp_info.libs[1])
            => f \in package_folder

---------------------------------------------------------------------------
(* Property of _configure_cmake(), checked under SpecCalls                 *)

Configures == {i \in DOMAIN calls : calls[i] = "configure"}

\* C5: over any sequence of build() and package() calls of one process
\* cmake.configure() runs at most once, it runs before every cmake.build()
\* and cmake.install(), and once a call has succeeded the CMake object stays
\* memoized, so later calls do not configure again.
C5_ConfigureOnce ==
    /\ Cardinality(Configures) <= 1
    /\ \A i \in DOMAIN calls :
          calls[i] \in {"build", "install"} => \E j \in Configures : j < i
    /\ NumOps > 0 => (Cardinality(Configures) = 1 /\ cmake_cache = <<"self">>)
    /\ calls # <<>> => calls[1] = "configure"

\* build() then package(): one configure, then build, then install
C5_Witness == calls = <<"configure", "build", "install">>

====
